---- MODULE Spec2Model ----
(***************************************************************************)
(* The confetti particle subsystem of src/components/ui/confetti.tsx       *)
(* (useConfetti): the overlay canvas and its drawing context, the particle *)
(* pool, the requestAnimationFrame driver and the React state/closures     *)
(* that decide when the driver is started.                                 *)
(*                                                                         *)
(* Numbers.  Lengths are kept in tenths of a pixel, so that the gravity    *)
(* step 0.3 px/frame is the integer 3.  maxLife = duration / 16.67 is kept *)
(* as the numerator duration * 100 over the denominator 1667, and alpha as *)
(* an exact fraction [num, den].  Math.random() returns k / 360 for k in a *)
(* small set.  The particle fields x, vx, rotation, rotationSpeed,        *)
(* scale and shape are written by the code but never read by anything that *)
(* decides pool membership, colour or scheduling; they are left out.       *)
(*                                                                         *)
(* Further parts of the repository follow, each with variables, an        *)
(* initial state and a specification of its own: useScrollReveal           *)
(* (SpecReveal), HolographicSeal (SpecSeal), useSwipeGesture (SpecSwipe)   *)
(* with useSwipeToDelete on top of it (SpecDelete), the                    *)
(* AudioFeedbackManager (SpecAudio), the CommandPalette (SpecPalette), the *)
(* Confetti component around the confetti hook (SpecComponent) and         *)
(* useParallaxScroll (SpecParallax).  A specification moves the            *)
(* variables of its own part and leaves the others in their initial state. *)
(* Volumes are kept in thousandths, velocityThreshold in tenths of a       *)
(* px/ms, touch coordinates in px and times in ms.                         *)
(***************************************************************************)
EXTENDS Integers, Sequences, FiniteSets, TLC

\* ------------------------------------------------------------------ bounds
\* largest particleCount passed to fire
MaxCount == 2
\* largest pool the model lets fire build
MaxParticles == 2
\* largest number of frame callbacks the model lets fire leave pending
MaxPending == 2
\* number of further hook instances on the page (SpecPage only)
MaxOtherHooks == 1
\* how many clock steps of ClockStep ms the swipe model lets pass
MaxTicks == 4
\* the calls of fire the Confetti component makes for one value of trigger
MaxFires == 3

\* ------------------------------------------------------- program constants
\* canvas.height = window.innerHeight, in px
CanvasHeight == 900
\* the off-screen margin of "particle.y > canvas.height + 100", in px
OffscreenMargin == 100
\* particle.vy += 0.3, in tenths of a px per frame
Gravity == 3
\* particle.hue = (particle.hue + 2) % 360
HueStep == 2
\* maxLife = duration / 16.67: the divisor times 100
FrameMs == 1667
\* the degrees of the hue circle, "Math.random() * 360" and "% 360"; the model's
\* Math.random() returns k / Circle, so that Math.random() * 360 is the integer k
Circle == 360

Null == 0
Self == 1
Hooks == 1..(1 + MaxOtherHooks)
Handles == 1..(MaxPending + 1)

VARIABLES
    status,       \* per hook: "absent", "rendered" (effect not run yet), "mounted", "unmounted"
    canvasRef,    \* per hook: canvasRef.current, Null or the canvas the hook created
    body,         \* the canvases that are children of document.body
    glRef,        \* glRef.current of Self: "null" or "webgl"
    particlesRef, \* particlesRef.current of Self: the pool, a sequence of particles
    rafRef,       \* rafRef.current of Self: Null or the last handle requestAnimationFrame returned
    isActive,     \* the React state isActive of Self (the value the next render reads)
    closure,      \* the isActive captured by the fire callback of the last committed render
    rafQueue,     \* the browser's list of animation frame callbacks (handles), in request order
    frameBatch,   \* the callbacks of the frame being delivered that have not run yet
    call,         \* the last operation and its arguments
    \* useScrollReveal (one hook instance)
    revealStatus, \* "rendered" (first render done, effects not run yet), "mounted", "unmounted"
    once,         \* the once option of the instance
    direction,    \* the direction option of the instance
    disabled,     \* the disabled option of the last render
    mediaMatches, \* matchMedia('(prefers-reduced-motion: reduce)').matches
    reducedMotion,\* the React state reducedMotion (the value the next render reads)
    isVisible,    \* the React state isVisible (the value the next render reads)
    hasBeenSeen,  \* the React state hasBeenSeen (the value the next render reads)
    rendered,     \* what the last render read and returned
    listening,    \* handleChange is registered on the media query
    revealRef,    \* ref.current is an element: the last commit attached the ref
    observer,     \* the IntersectionObserver of the last run of the observer effect
    effectDeps,   \* the dependencies of the last run of the observer effect
    effectsDue,   \* a render has been committed and its effects have not run yet
    revealCall,   \* the last operation of the scroll reveal and its argument
    \* HolographicSeal (one component instance)
    sealStatus,   \* "rendered" (first render done, effects not run yet), "mounted", "unmounted"
    animated,     \* the animated prop of the last render
    rotation,     \* the React state rotation
    interval,     \* the setInterval timer of the rotation effect is set
    paintWorklet, \* supportsHoudiniPaint(): 'paintWorklet' in CSS
    supported,    \* the React state supported of useHolographicShaders
    loaded,       \* the React state loaded of useHolographicShaders
    loading,      \* paintWorklet.addModule(url) has not settled yet
    sealReduced,  \* the user's reduced-motion preference
    sealCall,     \* the last operation of the seal
    \* useSwipeGesture (one hook instance on an attached element)
    swipeOptions, \* threshold, velocityThreshold, maxDuration, enableHorizontal, enableVertical
    touchStart,   \* touchStart.current: where and when the gesture began, or not set
    lastTouch,    \* lastTouch.current: the last touch position the hook recorded, or not set
    hasStartedRef,\* hasStartedRef.current
    isSwiping,    \* the React state isSwiping
    delta,        \* the React state delta, in px
    progress,     \* the React state progress, a fraction [num, den]
    finger,       \* where the finger is, and whether it is on the element
    clock,        \* Date.now(), in ms
    invoked,      \* the callbacks the last handler invoked, in order
    swipeCall,    \* the last touch event
    owner,        \* who gave the hook its callbacks: "user" or "useSwipeToDelete"
    revealed,     \* the React state revealed of useSwipeToDelete
    renderedRevealed, \* the revealed of the last committed render
    listenerRevealed, \* the revealed the attached touch listeners close over
    offset,       \* the React state offset of useSwipeToDelete, in px
    \* AudioFeedbackManager (the singleton audioManager)
    webAudio,     \* window.AudioContext || window.webkitAudioContext is a constructor
    audioContext, \* this.audioContext: "null" or "context"
    enabled,      \* this.enabled
    volume,       \* this.volume, in thousandths
    stored,       \* localStorage 'audio-feedback-enabled': "null", "true" or "false"
    masterGain,   \* the value given to the master gain of the last sound played, in thousandths
    audioCall,    \* the last method called
    \* CommandPalette (one component instance)
    paletteOpen,  \* the open prop of the last render
    breadcrumbs,  \* the breadcrumbs prop
    pages,        \* the React state pages, the stack of page ids
    search,       \* the React state search
    renderedPages,\* the pages the last committed render read: what its handlers close over
    listenerPages,\* the pages the registered document keydown listener closes over
    resetOpen,    \* the open the reset effect last ran with
    paletteCalls, \* the callbacks of the props the last event invoked, in order
    paletteCall,  \* the last event and what it was given
    \* Confetti, the declarative component around the hook Self
    trigger,      \* the trigger prop of the last render
    optionsProp,  \* the options prop
    depsRan,      \* the trigger and the fire callback the effect last ran with
    fireCalls,    \* how often the effect has called fire since trigger last changed
    \* useParallaxScroll (one hook instance)
    parallaxStatus,  \* "rendered" (first render done, effect not run yet), "mounted", "unmounted"
    speed,           \* the speed option of the last render, in tenths
    parallaxReduced, \* reducedMotion as the last render read it
    parallaxDeps,    \* the speed and reducedMotion the effect last ran with
    refCurrent,      \* ref.current is an element
    rectTop,         \* getBoundingClientRect().top of the element, in px
    parallaxOffset,  \* the React state offset, in tenths of a px
    rafIdRef,        \* rafIdRef.current: Null or the last handle requestAnimationFrame returned
    tickingRef,      \* tickingRef.current
    scrollListener,  \* handleScroll of the last effect run is registered on window
    pendingFrames,   \* the frame callbacks requested and neither run nor cancelled
    parallaxCall     \* the last operation of the parallax hook

confettiVars == <<status, canvasRef, body, glRef, particlesRef, rafRef, isActive, closure,
                  rafQueue, frameBatch, call>>

revealVars == <<revealStatus, once, direction, disabled, mediaMatches, reducedMotion,
                isVisible, hasBeenSeen, rendered, listening, revealRef, observer,
                effectDeps, effectsDue, revealCall>>

sealVars == <<sealStatus, animated, rotation, interval, paintWorklet, supported, loaded,
              loading, sealReduced, sealCall>>

deleteVars == <<owner, revealed, offset, renderedRevealed, listenerRevealed>>

swipeVars == <<swipeOptions, touchStart, lastTouch, hasStartedRef, isSwiping, delta,
               progress, finger, clock, invoked, swipeCall, deleteVars>>

audioVars == <<webAudio, audioContext, enabled, volume, stored, masterGain, audioCall>>

paletteVars == <<paletteOpen, breadcrumbs, pages, search, renderedPages, listenerPages,
                 resetOpen, paletteCalls, paletteCall>>

componentVars == <<trigger, optionsProp, depsRan, fireCalls>>

parallaxVars == <<parallaxStatus, speed, parallaxReduced, parallaxDeps, refCurrent, rectTop, parallaxOffset,
                  rafIdRef, tickingRef, scrollListener, pendingFrames, parallaxCall>>

\* the state of the subsystems other than the confetti, the scroll reveal, the
\* seal, the swipe gesture, the audio feedback, the command palette, the
\* Confetti component, the parallax hook
hookVars == <<revealVars, sealVars, swipeVars, audioVars, paletteVars, parallaxVars>>
otherVars == <<hookVars, componentVars>>
notReveal ==
    <<confettiVars, sealVars, swipeVars, audioVars, paletteVars, componentVars,
      parallaxVars>>
notSeal ==
    <<confettiVars, revealVars, swipeVars, audioVars, paletteVars, componentVars,
      parallaxVars>>
notSwipe ==
    <<confettiVars, revealVars, sealVars, audioVars, paletteVars, componentVars,
      parallaxVars>>
notAudio ==
    <<confettiVars, revealVars, sealVars, swipeVars, paletteVars, componentVars,
      parallaxVars>>
notParallax ==
    <<confettiVars, revealVars, sealVars, swipeVars, audioVars, paletteVars, componentVars>>
notPalette ==
    <<confettiVars, revealVars, sealVars, swipeVars, audioVars, componentVars,
      parallaxVars>>

vars == <<confettiVars, revealVars, sealVars, swipeVars, audioVars, paletteVars,
          componentVars, parallaxVars>>

Max(a, b) == IF a >= b THEN a ELSE b

NoCall == [op |-> "none", particleCount |-> 0, reducedMotion |-> FALSE, hook |-> Null]

Op(name, h) == [NoCall EXCEPT !.op = name, !.hook = h]

\* ------------------------------------------------------------- the browser
\* requestAnimationFrame returns a handle no pending callback has; which one is
\* immaterial, the model takes the least that is neither pending nor in rafRef.
NewHandle ==
    CHOOSE h \in Handles :
        /\ h \notin ({rafQueue[i] : i \in 1..Len(rafQueue)}
                     \cup {frameBatch[i] : i \in 1..Len(frameBatch)} \cup {rafRef})
        /\ \A g \in Handles :
              (g \notin ({rafQueue[i] : i \in 1..Len(rafQueue)}
                     \cup {frameBatch[i] : i \in 1..Len(frameBatch)} \cup {rafRef})) => h <= g

RECURSIVE Without(_, _)
Without(q, h) ==
    IF q = <<>> THEN <<>>
    ELSE IF Head(q) = h THEN Without(Tail(q), h)
    ELSE <<Head(q)>> \o Without(Tail(q), h)

\* canvas.getContext('2d'): null once the canvas was given a WebGL context
GetContext2d == IF glRef = "webgl" THEN "null" ELSE "2d"

\* ------------------------------------- scroll reveal: render, initial state
\* getOpacity(visible), with the disabled option d and the rendered reducedMotion rm
GetOpacity(d, rm, visible) ==
    IF d \/ rm THEN 1 ELSE IF visible THEN 1 ELSE 0

\* getTransform(visible) for the direction dir and the default distance of 50 px
GetTransform(d, rm, visible, dir) ==
    IF d \/ rm THEN "none"
    ELSE IF visible THEN "none"
    ELSE CASE dir = "up" -> "translateY(50px)"
           [] dir = "down" -> "translateY(-50px)"
           [] dir = "left" -> "translateX(50px)"
           [] dir = "right" -> "translateX(-50px)"
           [] dir = "fade" -> "none"

\* style.transition, with the default duration, easing and delay
GetTransition(d, rm) ==
    IF d \/ rm THEN "none"
    ELSE "opacity 600ms cubic-bezier(0.16, 1, 0.3, 1) 0ms, transform 600ms cubic-bezier(0.16, 1, 0.3, 1) 0ms"

\* one call of useScrollReveal: the state it reads and the result it returns
RenderResult(d, rm, visible, seen, dir) ==
    [reducedMotion |-> rm,
     isVisible |-> visible,
     hasBeenSeen |-> seen,
     opacity |-> GetOpacity(d, rm, visible),
     transform |-> GetTransform(d, rm, visible, dir),
     transition |-> GetTransition(d, rm),
     className |-> IF visible THEN "scroll-revealed" ELSE "scroll-hidden"]

NoObserver == [alive |-> FALSE, once |-> FALSE, observing |-> FALSE]

Directions == {"up", "down", "left", "right", "fade"}

\* the first render of useScrollReveal({once: o, direction: dir, disabled: d})
\* on a system whose reduced-motion preference is m; attached: the host gives
\* the returned ref to an element it renders
RevealInit(o, dir, d, m, attached) ==
    /\ revealStatus = "rendered"
    /\ revealRef = attached
    /\ once = o
    /\ direction = dir
    /\ disabled = d
    /\ mediaMatches = m
    /\ reducedMotion = FALSE
    /\ isVisible = FALSE
    /\ hasBeenSeen = FALSE
    /\ rendered = RenderResult(d, FALSE, FALSE, FALSE, dir)
    /\ listening = FALSE
    /\ observer = NoObserver
    /\ effectDeps = [once |-> o, disabled |-> d, reducedMotion |-> FALSE]
    /\ effectsDue = TRUE
    /\ revealCall = [op |-> "render", isIntersecting |-> FALSE]

\* useScrollReveal() with its default options
RevealStart == RevealInit(TRUE, "up", FALSE, FALSE, TRUE)

\* ------------------------------------------------- seal: initial state
\* the first render of <HolographicSeal animated={a} /> in a browser where
\* supportsHoudiniPaint() is w, for a user whose reduced-motion preference is m
SealInit(a, w, m) ==
    /\ sealStatus = "rendered"
    /\ animated = a
    /\ rotation = 0
    /\ interval = FALSE
    /\ paintWorklet = w
    /\ supported = FALSE
    /\ loaded = FALSE
    /\ loading = FALSE
    /\ sealReduced = m
    /\ sealCall = "render"

\* <HolographicSeal /> with its default props
SealStart == SealInit(TRUE, FALSE, FALSE)

\* ---------------------------------------- swipe gesture: initial state
NoTouch == [set |-> FALSE, x |-> 0, y |-> 0, time |-> 0]

\* useSwipeGesture(callbacks, options) after its first render and effect, with
\* the default friction 0.5; velocityThreshold is kept in tenths of a px/ms
GestureInit(options) ==
    /\ swipeOptions = options
    /\ touchStart = NoTouch
    /\ lastTouch = NoTouch
    /\ hasStartedRef = FALSE
    /\ isSwiping = FALSE
    /\ delta = [x |-> 0, y |-> 0]
    /\ progress = [num |-> 0, den |-> 1]
    /\ finger = [down |-> FALSE, x |-> 0, y |-> 0]
    /\ clock = 0
    /\ invoked = <<>>
    /\ swipeCall = "none"

\* the hook used on its own, with callbacks of the user
SwipeInit(options) ==
    /\ GestureInit(options)
    /\ owner = "user"
    /\ revealed = FALSE
    /\ offset = 0
    /\ renderedRevealed = FALSE
    /\ listenerRevealed = FALSE

\* the options useSwipeToDelete passes: { threshold, enableVertical: false }
DeleteOptions(threshold) ==
    [threshold |-> threshold, velocityThreshold |-> 3, maxDuration |-> 300,
     enableHorizontal |-> TRUE, enableVertical |-> FALSE]

\* useSwipeToDelete({ onDelete, threshold }) after its first render and effect
DeleteInit(threshold) ==
    /\ GestureInit(DeleteOptions(threshold))
    /\ owner = "useSwipeToDelete"
    /\ revealed = FALSE
    /\ offset = 0
    /\ renderedRevealed = FALSE
    /\ listenerRevealed = FALSE

\* the default options: threshold 80, velocityThreshold 0.3, maxDuration 300
DefaultSwipeOptions ==
    [threshold |-> 80, velocityThreshold |-> 3, maxDuration |-> 300,
     enableHorizontal |-> TRUE, enableVertical |-> TRUE]

SwipeStart == SwipeInit(DefaultSwipeOptions)

\* --------------------------------------- audio feedback: initial state
\* private volume: number = 0.3, in thousandths
DefaultVolume == 300

NoSound == [played |-> FALSE, value |-> 0]

\* new AudioFeedbackManager(), with item the stored 'audio-feedback-enabled',
\* in a browser that has the Web Audio API (w) or lacks it
AudioInit(item, w) ==
    /\ webAudio = w
    /\ audioContext = "null"
    /\ enabled = IF item = "null" THEN TRUE ELSE item = "true"
    /\ volume = DefaultVolume
    /\ stored = item
    /\ masterGain = NoSound
    /\ audioCall = "constructor"

AudioStart == AudioInit("null", TRUE)

\* ------------------------------------- command palette: initial state
\* useState<string[]>(['root'])
RootPages == <<"root">>

\* an event: its kind, the action or text it was given, the stack and the
\* search it found, and how an Escape key event was delivered
NoPaletteCall == [op |-> "mount", id |-> "", disabled |-> FALSE, children |-> 0,
                  shown |-> FALSE, before |-> RootPages, typed |-> "", inside |-> FALSE,
                  sync |-> FALSE]

\* <CommandPalette open={o} breadcrumbs={bc} ... /> after its first render and
\* the effects of that render
PaletteInit(o, bc) ==
    /\ paletteOpen = o
    /\ breadcrumbs = bc
    /\ pages = RootPages
    /\ search = ""
    /\ renderedPages = RootPages
    /\ listenerPages = RootPages
    /\ resetOpen = o
    /\ paletteCalls = <<>>
    /\ paletteCall = NoPaletteCall

PaletteStart == PaletteInit(FALSE, TRUE)

\* ------------------------------------- Confetti component: initial state
NoDeps == [ran |-> FALSE, trigger |-> FALSE, fire |-> FALSE]

\* the options prop when the hook is used without the component
NoOptions == [particleCount |-> 0]

\* the first render of <Confetti trigger={t} options={o} />
ComponentInit(t, o) ==
    /\ trigger = t
    /\ optionsProp = o
    /\ depsRan = NoDeps
    /\ fireCalls = 0

ComponentStart == ComponentInit(FALSE, NoOptions)

\* --------------------------------------- parallax scroll: initial state
\* window.innerHeight and the height of the element, in px
InnerHeight == 800
RectHeight == 200

\* the first render of a component using useParallaxScroll({ speed: s / 10 });
\* rm: the reducedMotion it read; attached: its element is rendered
ParallaxInit(s, rm, attached) ==
    /\ parallaxStatus = "rendered"
    /\ speed = s
    /\ parallaxReduced = rm
    /\ parallaxDeps = <<s, rm>>
    /\ refCurrent = attached
    /\ rectTop = InnerHeight
    /\ parallaxOffset = 0
    /\ rafIdRef = Null
    /\ tickingRef = FALSE
    /\ scrollListener = FALSE
    /\ pendingFrames = {}
    /\ parallaxCall = "render"

\* the default speed 0.5
ParallaxStart == ParallaxInit(5, FALSE, TRUE)

\* --------------------------------------------------------------- lifecycle
ConfettiInit ==
    /\ status = [h \in Hooks |-> IF h = Self THEN "rendered" ELSE "absent"]
    /\ canvasRef = [h \in Hooks |-> Null]
    /\ body = {}
    /\ glRef = "null"
    /\ particlesRef = <<>>
    /\ rafRef = Null
    /\ isActive = FALSE
    /\ closure = FALSE
    /\ rafQueue = <<>>
    /\ frameBatch = <<>>
    /\ call = NoCall

Init ==
    /\ ConfettiInit
    /\ RevealStart /\ SealStart /\ SwipeStart /\ AudioStart /\ PaletteStart
    /\ ComponentStart
    /\ ParallaxStart

\* the mount effect of hook h; webgl: canvas.getContext('webgl') gave a context
MountWithoutCanvas(h, webgl) ==
    /\ frameBatch = <<>>
    /\ status[h] = "rendered"
    /\ status' = [status EXCEPT ![h] = "mounted"]
    /\ call' = Op("mount", h)
    /\ UNCHANGED <<body, canvasRef, glRef, particlesRef, rafRef, isActive, closure,
                   rafQueue, frameBatch>>
    /\ UNCHANGED otherVars
Mount(h, webgl) ==
    /\ frameBatch = <<>>
    /\ status[h] = "rendered"
    /\ status' = [status EXCEPT ![h] = "mounted"]
    /\ IF canvasRef[h] = Null
       THEN /\ body' = body \cup {h}
            /\ canvasRef' = [canvasRef EXCEPT ![h] = h]
            /\ glRef' = IF h = Self THEN (IF webgl THEN "webgl" ELSE "null") ELSE glRef
       ELSE UNCHANGED <<body, canvasRef, glRef>>
    /\ call' = Op("mount", h)
    /\ UNCHANGED <<particlesRef, rafRef, isActive, closure, rafQueue, frameBatch>>
    /\ UNCHANGED otherVars

\* document.body after the cleanup's removeChild
BodyAfterCleanupKeepingCanvas(h) == body
BodyAfterCleanup(h) ==
    IF canvasRef[h] # Null /\ canvasRef[h] \in body THEN body \ {canvasRef[h]} ELSE body

\* the cleanup of the mount effect of hook h
Unmount(h) ==
    /\ frameBatch = <<>>
    /\ status[h] = "mounted"
    /\ status' = [status EXCEPT ![h] = "unmounted"]
    /\ body' = BodyAfterCleanup(h)
    /\ rafQueue' = IF h = Self /\ rafRef # Null THEN Without(rafQueue, rafRef) ELSE rafQueue
    /\ call' = Op("unmount", h)
    /\ UNCHANGED <<canvasRef, glRef, particlesRef, rafRef, isActive, closure, frameBatch>>
    /\ UNCHANGED otherVars

\* --------------------------------------------------------------- particles
\* Math.cos of an angle in degrees, for the angles that have an integer cosine
CosDeg(a) ==
    CASE a = 0 -> 1
      [] a = 180 \/ a = -180 -> -1
      [] a = 90 \/ a = -90 -> 0

\* the particleCount, duration, startVelocity, spread, iridescent and origin.y
\* (in halves) the model passes to fire.  With spread 360 and the angle draw 0
\* a particle leaves straight down at 100 or 200 px/frame and is off-screen
\* after 6 or 3 frames; duration 50 gives maxLife = 2.999 frames.
DurationChoices == {50}
VelocityChoices == {200}
SpreadChoices == {360}
FireOptions ==
    [particleCount : 0..MaxCount, duration : DurationChoices,
     startVelocity : VelocityChoices, spread : SpreadChoices,
     iridescent : BOOLEAN, originY : {1}]

\* the values k of the Math.random() calls of one particle (k / Circle)
Draws == [angle : {0}, velocity : {0, 180}, hue : {359}]

\* the particle record fire builds from the options o and the random draws r
NewParticle(o, r) ==
    LET angle == (r.angle * o.spread) \div Circle - o.spread \div 2
        velocity == (r.velocity * o.startVelocity * 10) \div Circle
                    + (o.startVelocity * 10) \div 2
    IN  [y |-> (CanvasHeight * 10 * o.originY) \div 2,
         vy |-> (0 - CosDeg(angle)) * velocity,
         hue |-> IF o.iridescent THEN r.hue ELSE 0,
         saturation |-> IF o.iridescent THEN 100 ELSE 0,
         lightness |-> IF o.iridescent THEN 60 ELSE 50,
         alpha |-> [num |-> 1, den |-> 1],
         life |-> 0,
         maxLife |-> o.duration * 100]

\* the physics and colour update of one particle in animate's filter callback
UpdateBrightening(p) ==
    LET vy == p.vy + Gravity
        life == p.life + 1
        q == [p EXCEPT !.vy = vy, !.y = p.y + vy, !.life = life]
    IN  IF life * FrameMs < p.maxLife
        THEN [q EXCEPT !.hue = (p.hue + HueStep) % Circle,
                       !.alpha = [num |-> Max(1, life * FrameMs), den |-> p.maxLife]]
        ELSE q
Update(p) ==
    LET vy == p.vy + Gravity
        life == p.life + 1
        q == [p EXCEPT !.vy = vy, !.y = p.y + vy, !.life = life]
    IN  IF life * FrameMs < p.maxLife
        THEN [q EXCEPT !.hue = (p.hue + HueStep) % Circle,
                       !.alpha = [num |-> Max(0, p.maxLife - life * FrameMs),
                                  den |-> p.maxLife]]
        ELSE q

\* "Remove if off-screen or faded", on the updated particle
Removed(q) ==
    \/ q.y > (CanvasHeight + OffscreenMargin) * 10
    \/ q.alpha.num <= 0

\* particlesRef.current.filter(...): every particle is updated, the survivors kept in order
RECURSIVE FilterParticlesNewestFirst(_)
FilterParticlesNewestFirst(ps) ==
    IF ps = <<>> THEN <<>>
    ELSE LET q == Update(Head(ps))
         IN  IF Removed(q) THEN FilterParticlesNewestFirst(Tail(ps))
             ELSE FilterParticlesNewestFirst(Tail(ps)) \o <<q>>
RECURSIVE FilterParticles(_)
FilterParticles(ps) ==
    IF ps = <<>> THEN <<>>
    ELSE LET q == Update(Head(ps))
         IN  IF Removed(q) THEN FilterParticles(Tail(ps))
             ELSE <<q>> \o FilterParticles(Tail(ps))

\* ------------------------------------------------------------------ driver
\* the browser starts delivering a frame: the callbacks requested so far are due
BeginFrame ==
    /\ frameBatch = <<>>
    /\ rafQueue # <<>>
    /\ frameBatch' = rafQueue
    /\ rafQueue' = <<>>
    /\ call' = Op("frame", Null)
    /\ UNCHANGED <<status, canvasRef, body, glRef, particlesRef, rafRef, isActive, closure>>
    /\ UNCHANGED otherVars

\* animate, run as the next due frame callback; call.particleCount records how
\* many particles the filter went over
Animate ==
    /\ frameBatch # <<>>
    /\ frameBatch' = Tail(frameBatch)
    /\ call' = [Op("animate", Self) EXCEPT
                   !.particleCount = IF canvasRef[Self] = Null \/ GetContext2d = "null"
                                     THEN 0 ELSE Len(particlesRef)]
    /\ IF canvasRef[Self] = Null \/ GetContext2d = "null"
       THEN UNCHANGED <<particlesRef, rafRef, rafQueue, isActive>>
       ELSE LET ps == FilterParticles(particlesRef)
            IN  /\ particlesRef' = ps
                /\ IF Len(ps) > 0
                   THEN /\ rafRef' = NewHandle
                        /\ rafQueue' = Append(rafQueue, NewHandle)
                        /\ UNCHANGED isActive
                   ELSE /\ isActive' = FALSE
                        /\ UNCHANGED <<rafRef, rafQueue>>
    /\ UNCHANGED <<status, canvasRef, body, glRef, closure>>
    /\ UNCHANGED otherVars

\* fire gets past its two early returns: the canvas exists and the user does
\* not prefer reduced motion
FireSpawnsIgnoringMotion(rm) == canvasRef[Self] # Null
FireSpawns(rm) == canvasRef[Self] # Null /\ ~rm

\* particlesRef.current = [...particlesRef.current, ...newParticles]
AppendedReplacingPool(ps, new) == new
Appended(ps, new) == ps \o new

\* fire(o), called through the fire callback of the last committed render;
\* rm: matchMedia('(prefers-reduced-motion: reduce)').matches; rs: the random draws
FireBody(o, rm, rs) ==
    /\ frameBatch = <<>>
    /\ status[Self] # "absent"
    /\ call' = [op |-> "fire", particleCount |-> o.particleCount, reducedMotion |-> rm,
                hook |-> Self]
    /\ IF ~FireSpawns(rm)
       THEN UNCHANGED <<particlesRef, rafRef, rafQueue, isActive>>
       ELSE /\ particlesRef' =
                  Appended(particlesRef, [i \in 1..o.particleCount |-> NewParticle(o, rs[i])])
            /\ IF ~closure
               THEN /\ isActive' = TRUE
                    /\ rafRef' = NewHandle
                    /\ rafQueue' = Append(rafQueue, NewHandle)
               ELSE UNCHANGED <<rafRef, rafQueue, isActive>>
    /\ UNCHANGED <<status, canvasRef, body, glRef, closure, frameBatch>>

\* fire(o), called by the user of the hook
FireCall(o, rm, rs) == FireBody(o, rm, rs) /\ UNCHANGED otherVars

\* fire(o), for as long as the pool and the callback list stay within the bounds
Fire(o, rm, rs) ==
    /\ Len(particlesRef) + o.particleCount <= MaxParticles
    /\ Len(rafQueue) < MaxPending
    /\ FireCall(o, rm, rs)

\* React re-renders the host: the new fire callback captures the current isActive
Render ==
    /\ frameBatch = <<>>
    /\ status[Self] \in {"rendered", "mounted"}
    /\ closure # isActive
    /\ closure' = isActive
    /\ call' = Op("render", Self)
    /\ UNCHANGED <<status, canvasRef, body, glRef, particlesRef, rafRef, isActive,
                   rafQueue, frameBatch>>
    /\ UNCHANGED otherVars

\* another component of the page starts using the subsystem
RenderHook(h) ==
    /\ frameBatch = <<>>
    /\ status[h] = "absent"
    /\ status' = [status EXCEPT ![h] = "rendered"]
    /\ call' = Op("use", h)
    /\ UNCHANGED <<canvasRef, body, glRef, particlesRef, rafRef, isActive, closure,
                   rafQueue, frameBatch>>
    /\ UNCHANGED otherVars

Next ==
    \/ \E webgl \in BOOLEAN : Mount(Self, webgl)
    \/ Unmount(Self)
    \/ \E o \in FireOptions, rm \in BOOLEAN :
          \E rs \in [1..o.particleCount -> Draws] : Fire(o, rm, rs)
    \/ BeginFrame
    \/ Animate
    \/ Render

Spec == Init /\ [][Next]_vars

\* Frames keep being delivered, every due callback is run, and React commits
\* the re-render a state change asked for.
SpecLive ==
    Init /\ [][Next]_vars /\ WF_vars(BeginFrame) /\ WF_vars(Animate) /\ WF_vars(Render)

\* A page with several users of the subsystem.  The other hooks have a pool and
\* a driver of their own, which touch neither the document nor Self; of them
\* the model keeps the lifecycle.  Self fires one kind of particle here.
PageOptions == {o \in FireOptions : o.iridescent}
PageDraws == {r \in Draws : r.velocity = 180}

NextPage ==
    \/ \E h \in Hooks \ {Self} : RenderHook(h)
    \/ \E h \in Hooks, webgl \in BOOLEAN : Mount(h, webgl)
    \/ \E h \in Hooks : Unmount(h)
    \/ \E o \in PageOptions, rm \in BOOLEAN :
          \E rs \in [1..o.particleCount -> PageDraws] : Fire(o, rm, rs)
    \/ BeginFrame
    \/ Animate
    \/ Render

SpecPage == Init /\ [][NextPage]_vars

\* The scenario of one burst at a time with fire's default spread and velocity:
\* fire({particleCount, duration: 1000}) on a mounted, idle hook whose canvas
\* has a 2D context, the particles leaving straight up, then frames.
ScenarioOptions ==
    [particleCount : 1..MaxCount, duration : {1000}, startVelocity : {30}, spread : {60},
     iridescent : BOOLEAN, originY : {1}]
ScenarioDraws == [angle : {180}, velocity : {0, 180}, hue : {359}]

Idle == particlesRef = <<>> /\ rafQueue = <<>> /\ frameBatch = <<>> /\ closure = isActive

NextScenario ==
    \/ Mount(Self, FALSE)
    \/ /\ status[Self] = "mounted"
       /\ Idle
       /\ \E o \in ScenarioOptions :
             \E rs \in [1..o.particleCount -> ScenarioDraws] : Fire(o, FALSE, rs)
    \/ BeginFrame
    \/ Animate
    \/ Render

SpecScenario == Init /\ [][NextScenario]_vars

\* Bursts fired one after another into a pool that is still animating, each
\* through the fire callback of an up-to-date render, on a canvas with a 2D
\* context; the pool may hold one particle more than in Spec.
OrderOptions == {o \in FireOptions : o.particleCount > 0}

NextOrder ==
    \/ Mount(Self, FALSE)
    \/ /\ status[Self] = "mounted"
       /\ closure = isActive
       /\ Len(rafQueue) < MaxPending
       /\ \E o \in OrderOptions :
             /\ Len(particlesRef) + o.particleCount <= MaxParticles + 1
             /\ \E rs \in [1..o.particleCount -> Draws] : FireCall(o, FALSE, rs)
    \/ BeginFrame
    \/ Animate
    \/ Render

SpecOrder == Init /\ [][NextOrder]_vars

\* ------------------------------------------------------ Confetti component
\* the dependencies [trigger, fire, options] of the component's effect as of
\* the last committed render; fire is a new callback whenever the isActive it
\* captured differs (useCallback deps [isActive, animate]), options stays
CurrentDeps == [ran |-> TRUE, trigger |-> trigger, fire |-> closure]

\* the component's effect, run after a commit that changed its dependencies
ComponentEffect(rm) ==
    /\ status[Self] = "mounted"
    /\ depsRan # CurrentDeps
    /\ depsRan' = CurrentDeps
    /\ IF trigger
       THEN /\ fireCalls < MaxFires
            /\ Len(particlesRef) + optionsProp.particleCount <= MaxParticles
            /\ Len(rafQueue) < MaxPending
            /\ fireCalls' = fireCalls + 1
            /\ \E rs \in [1..optionsProp.particleCount -> Draws] :
                  FireBody(optionsProp, rm, rs)
       ELSE /\ frameBatch = <<>>
            /\ call' = Op("effect", Self)
            /\ UNCHANGED <<status, canvasRef, body, glRef, particlesRef, rafRef, isActive,
                           closure, rafQueue, frameBatch, fireCalls>>
    /\ UNCHANGED <<trigger, optionsProp, hookVars>>

\* the parent renders the component with trigger = t, once the effects of the
\* commit before have run; the render reads the current isActive as well, and
\* its fire callback captures it
SetTrigger(t) ==
    /\ frameBatch = <<>>
    /\ status[Self] = "mounted"
    /\ depsRan = CurrentDeps
    /\ t # trigger
    /\ trigger' = t
    /\ closure' = isActive
    /\ fireCalls' = 0
    /\ call' = Op("render", Self)
    /\ UNCHANGED <<status, canvasRef, body, glRef, particlesRef, rafRef, isActive,
                   rafQueue, frameBatch>>
    /\ UNCHANGED <<optionsProp, depsRan, hookVars>>

ComponentOptions == {o \in FireOptions : ~o.iridescent}

InitComponent ==
    /\ ConfettiInit
    /\ RevealStart /\ SealStart /\ SwipeStart /\ AudioStart /\ PaletteStart
    /\ \E t \in BOOLEAN, o \in ComponentOptions : ComponentInit(t, o)
    /\ ParallaxStart

\* the effects of a commit run before the next render
NextComponent ==
    \/ \E webgl \in BOOLEAN : Mount(Self, webgl)
    \/ \E rm \in BOOLEAN : ComponentEffect(rm)
    \/ \E t \in BOOLEAN : SetTrigger(t)
    \/ depsRan = CurrentDeps /\ Render
    \/ BeginFrame
    \/ Animate

SpecComponent == InitComponent /\ [][NextComponent]_vars

\* ----------------------------------------------------------- scroll reveal
\* a re-render of the host with the disabled option d; attached: it renders
\* the element that has the ref
RevealRender(d, attached) ==
    /\ revealStatus # "unmounted"
    /\ ~effectsDue
    /\ disabled' = d
    /\ revealRef' = attached
    /\ rendered' = RenderResult(d, reducedMotion, isVisible, hasBeenSeen, direction)
    /\ effectsDue' = TRUE
    /\ revealCall' = [op |-> "render", isIntersecting |-> FALSE]
    /\ UNCHANGED <<revealStatus, once, direction, mediaMatches, reducedMotion, isVisible,
                   hasBeenSeen, listening, observer, effectDeps>>
    /\ UNCHANGED notReveal

\* the effects of the last render: on mount the effect of usePrefersReducedMotion,
\* then the observer effect if one of its dependencies changed (its cleanup
\* disconnects the previous observer); the new observer observes the element
\* of the ref, if there is one
RevealEffects ==
    /\ effectsDue
    /\ revealStatus # "unmounted"
    /\ effectsDue' = FALSE
    /\ revealStatus' = "mounted"
    /\ listening' = TRUE
    /\ reducedMotion' = IF revealStatus = "rendered" THEN mediaMatches ELSE reducedMotion
    /\ LET deps == [once |-> once, disabled |-> disabled,
                    reducedMotion |-> rendered.reducedMotion]
       IN  /\ effectDeps' = deps
           /\ IF revealStatus = "rendered" \/ deps # effectDeps
              THEN IF disabled \/ rendered.reducedMotion
                   THEN /\ isVisible' = TRUE
                        /\ hasBeenSeen' = TRUE
                        /\ observer' = NoObserver
                   ELSE /\ observer' = [alive |-> TRUE, once |-> once, observing |-> revealRef]
                        /\ UNCHANGED <<isVisible, hasBeenSeen>>
              ELSE UNCHANGED <<isVisible, hasBeenSeen, observer>>
    /\ revealCall' = [op |-> "effects", isIntersecting |-> FALSE]
    /\ UNCHANGED <<once, direction, disabled, mediaMatches, rendered, revealRef>>
    /\ UNCHANGED notReveal

\* the user changes the reduced-motion preference to b; handleChange, if registered
HandleChange(b) ==
    /\ b # mediaMatches
    /\ mediaMatches' = b
    /\ reducedMotion' = IF listening THEN b ELSE reducedMotion
    /\ revealCall' = [op |-> "change", isIntersecting |-> FALSE]
    /\ UNCHANGED <<revealStatus, once, direction, disabled, isVisible, hasBeenSeen, rendered,
                   listening, revealRef, observer, effectDeps, effectsDue>>
    /\ UNCHANGED notReveal

\* "else if (!once)": the observer's callback hides the element when it leaves
HidesOnLeaveAlways(o) == TRUE
HidesOnLeave(o) == ~o

\* the observer's callback with one entry for the observed element
Intersection(isIntersecting) ==
    /\ observer.alive
    /\ observer.observing
    /\ IF isIntersecting
       THEN /\ isVisible' = TRUE
            /\ hasBeenSeen' = TRUE
            /\ observer' = IF observer.once THEN [observer EXCEPT !.observing = FALSE]
                           ELSE observer
       ELSE /\ isVisible' = IF HidesOnLeave(observer.once) THEN FALSE ELSE isVisible
            /\ UNCHANGED <<hasBeenSeen, observer>>
    /\ revealCall' = [op |-> "intersection", isIntersecting |-> isIntersecting]
    /\ UNCHANGED <<revealStatus, once, direction, disabled, mediaMatches, reducedMotion,
                   rendered, listening, revealRef, effectDeps, effectsDue>>
    /\ UNCHANGED notReveal

\* the host unmounts: the cleanups disconnect the observer and remove handleChange
RevealUnmount ==
    /\ revealStatus = "mounted"
    /\ revealStatus' = "unmounted"
    /\ observer' = NoObserver
    /\ listening' = FALSE
    /\ revealRef' = FALSE
    /\ effectsDue' = FALSE
    /\ revealCall' = [op |-> "unmount", isIntersecting |-> FALSE]
    /\ UNCHANGED <<once, direction, disabled, mediaMatches, reducedMotion, isVisible,
                   hasBeenSeen, rendered, effectDeps>>
    /\ UNCHANGED notReveal

InitReveal ==
    /\ ConfettiInit
    /\ SealStart
    /\ SwipeStart
    /\ AudioStart
    /\ PaletteStart
    /\ ComponentStart
    /\ ParallaxStart
    /\ \E o \in BOOLEAN, dir \in Directions, d \in BOOLEAN, m \in BOOLEAN,
          attached \in BOOLEAN :
          RevealInit(o, dir, d, m, attached)

NextReveal ==
    \/ \E d \in BOOLEAN, attached \in BOOLEAN : RevealRender(d, attached)
    \/ RevealEffects
    \/ \E b \in BOOLEAN : HandleChange(b)
    \/ \E b \in BOOLEAN : Intersection(b)
    \/ RevealUnmount

SpecReveal == InitReveal /\ [][NextReveal]_vars

\* --------------------------------------------------------- HolographicSeal
\* the effects of the first render: useHolographicShaders starts loading the
\* worklets if paint worklets are supported, the rotation effect sets its timer
\* if animated
SealMount ==
    /\ sealStatus = "rendered"
    /\ sealStatus' = "mounted"
    /\ supported' = paintWorklet
    /\ loading' = paintWorklet
    /\ interval' = animated
    /\ sealCall' = "mount"
    /\ UNCHANGED <<animated, rotation, paintWorklet, loaded, sealReduced>>
    /\ UNCHANGED notSeal

\* addModule(url) resolves: setLoaded(true)
WorkletLoaded ==
    /\ loading
    /\ loading' = FALSE
    /\ loaded' = TRUE
    /\ sealCall' = "loaded"
    /\ UNCHANGED <<sealStatus, animated, rotation, interval, paintWorklet, supported,
                   sealReduced>>
    /\ UNCHANGED notSeal

\* addModule(url) rejects: the catch logs a warning, loaded stays false
WorkletFailed ==
    /\ loading
    /\ loading' = FALSE
    /\ sealCall' = "failed"
    /\ UNCHANGED <<sealStatus, animated, rotation, interval, paintWorklet, supported,
                   loaded, sealReduced>>
    /\ UNCHANGED notSeal

\* the degrees of a full turn, "(prev + 1) % 360"
FullTurn == 360

\* the timer's callback, every 50 ms: setRotation(prev => (prev + 1) % 360)
Tick ==
    /\ interval
    /\ rotation' = (rotation + 1) % FullTurn
    /\ sealCall' = "tick"
    /\ UNCHANGED <<sealStatus, animated, interval, paintWorklet, supported, loaded, loading,
                   sealReduced>>
    /\ UNCHANGED notSeal

\* a render with another value of the animated prop is committed, once the
\* effects of the commit before it have run; the timer is set exactly when
\* the rotation effect last ran with animated true
SetAnimated(a) ==
    /\ sealStatus = "mounted"
    /\ interval = animated
    /\ a # animated
    /\ animated' = a
    /\ sealCall' = "animated"
    /\ UNCHANGED <<sealStatus, rotation, interval, paintWorklet, supported, loaded, loading,
                   sealReduced>>
    /\ UNCHANGED notSeal

\* the effects of a commit that changed animated: the cleanup clears the
\* timer, the effect sets a new one if animated
SealEffects ==
    /\ sealStatus = "mounted"
    /\ interval # animated
    /\ interval' = animated
    /\ sealCall' = "effects"
    /\ UNCHANGED <<sealStatus, animated, rotation, paintWorklet, supported, loaded, loading,
                   sealReduced>>
    /\ UNCHANGED notSeal

\* the user changes the reduced-motion preference; the component has no listener
SealPreference(m) ==
    /\ m # sealReduced
    /\ sealReduced' = m
    /\ sealCall' = "preference"
    /\ UNCHANGED <<sealStatus, animated, rotation, interval, paintWorklet, supported,
                   loaded, loading>>
    /\ UNCHANGED notSeal

\* the component unmounts: clearInterval
SealUnmount ==
    /\ sealStatus = "mounted"
    /\ sealStatus' = "unmounted"
    /\ interval' = FALSE
    /\ sealCall' = "unmount"
    /\ UNCHANGED <<animated, rotation, paintWorklet, supported, loaded, loading,
                   sealReduced>>
    /\ UNCHANGED notSeal

InitSeal ==
    /\ ConfettiInit
    /\ RevealStart
    /\ SwipeStart
    /\ AudioStart
    /\ PaletteStart
    /\ ComponentStart
    /\ ParallaxStart
    /\ \E a \in BOOLEAN, w \in BOOLEAN, m \in BOOLEAN : SealInit(a, w, m)

NextSeal ==
    \/ SealMount
    \/ WorkletLoaded
    \/ WorkletFailed
    \/ Tick
    \/ \E a \in BOOLEAN : SetAnimated(a)
    \/ SealEffects
    \/ \E m \in BOOLEAN : SealPreference(m)
    \/ SealUnmount

SpecSeal == InitSeal /\ [][NextSeal]_vars

\* ------------------------------------------------------------ swipe gesture
Abs(a) == IF a >= 0 THEN a ELSE 0 - a

Min(a, b) == IF a <= b THEN a ELSE b

\* the clientX and clientY values of the touch events, in px
Coordinates == {0, 50, 100}

\* the time between two readings of Date.now() the model distinguishes, in ms
ClockStep == 100

\* the friction option (default 0.5), in tenths
Friction == 5

SwipeOptionChoices ==
    [threshold : {80}, velocityThreshold : {3}, maxDuration : {300},
     enableHorizontal : BOOLEAN, enableVertical : BOOLEAN]

\* time passes
Advance ==
    /\ clock < MaxTicks * ClockStep
    /\ clock' = clock + ClockStep
    /\ swipeCall' = "advance"
    /\ UNCHANGED <<swipeOptions, touchStart, lastTouch, hasStartedRef, isSwiping, delta,
                   progress, finger, invoked, deleteVars>>
    /\ UNCHANGED notSwipe

\* one callback of useSwipeToDelete, run on the state st = [revealed, offset]
\* that the callbacks before it left; the revealed that onSwipeEnd reads is the
\* one of the render whose effect registered the listeners
SwipeToDelete(st, name, deltaX) ==
    CASE name = "onSwipeLeft" -> [revealed |-> TRUE, offset |-> 0 - swipeOptions.threshold]
      [] name = "onSwipeRight" -> [revealed |-> FALSE, offset |-> 0]
      [] name = "onSwipeMove" ->
            IF deltaX < 0
            THEN [st EXCEPT !.offset = Max(deltaX, 0 - swipeOptions.threshold)]
            ELSE st
      [] name = "onSwipeEnd" -> IF ~listenerRevealed THEN [st EXCEPT !.offset = 0] ELSE st
      [] OTHER -> st

RECURSIVE AfterCallbacks(_, _, _)
AfterCallbacks(st, names, deltaX) ==
    IF names = <<>> THEN st
    ELSE AfterCallbacks(SwipeToDelete(st, Head(names), deltaX), Tail(names), deltaX)

\* the callbacks among names that the callbacks object has, "callbacks.f?.()":
\* the user of the hook gives all of them, useSwipeToDelete gives onSwipeLeft,
\* onSwipeRight, onSwipeMove and onSwipeEnd
Provided(names) ==
    LET has(name) == \/ owner = "user"
                     \/ name \in {"onSwipeLeft", "onSwipeRight", "onSwipeMove", "onSwipeEnd"}
    IN  SelectSeq(names, has)

\* the hook invokes the callbacks names, onSwipeMove with deltaX
Callbacks(names, deltaX) ==
    /\ UNCHANGED <<owner, renderedRevealed, listenerRevealed>>
    /\ IF owner = "useSwipeToDelete"
       THEN LET st == AfterCallbacks([revealed |-> revealed, offset |-> offset], names, deltaX)
            IN  /\ revealed' = st.revealed
                /\ offset' = st.offset
       ELSE UNCHANGED <<revealed, offset>>

\* handleTouchStart, for a touchstart of one finger at (x, y)
HandleTouchStart(x, y) ==
    /\ ~finger.down
    /\ finger' = [down |-> TRUE, x |-> x, y |-> y]
    /\ touchStart' = [set |-> TRUE, x |-> x, y |-> y, time |-> clock]
    /\ lastTouch' = [set |-> TRUE, x |-> x, y |-> y, time |-> clock]
    /\ hasStartedRef' = FALSE
    /\ isSwiping' = TRUE
    /\ invoked' = <<>>
    /\ swipeCall' = "touchstart"
    /\ UNCHANGED <<swipeOptions, delta, progress, clock, deleteVars>>
    /\ UNCHANGED notSwipe

\* deltaX * friction
Frictioned(d) == (d * Friction) \div 10

\* handleTouchMove, for a touchmove of the finger to (x, y)
HandleTouchMove(x, y) ==
    /\ finger.down
    /\ finger' = [finger EXCEPT !.x = x, !.y = y]
    /\ swipeCall' = "touchmove"
    /\ LET deltaX == x - touchStart.x
           deltaY == y - touchStart.y
           isHorizontal == Abs(deltaX) > Abs(deltaY)
           frictioned == IF isHorizontal THEN Frictioned(deltaX) ELSE Frictioned(deltaY)
       IN  IF \/ ~touchStart.set
              \/ isHorizontal /\ ~swipeOptions.enableHorizontal
              \/ ~isHorizontal /\ ~swipeOptions.enableVertical
           THEN /\ invoked' = <<>>
                /\ UNCHANGED <<delta, progress, lastTouch, hasStartedRef, deleteVars>>
           ELSE /\ Callbacks(<<"onSwipeMove">>, Frictioned(deltaX))
                /\ delta' = [x |-> IF swipeOptions.enableHorizontal
                                   THEN Frictioned(deltaX) ELSE 0,
                             y |-> IF swipeOptions.enableVertical
                                   THEN Frictioned(deltaY) ELSE 0]
                /\ progress' = [num |-> Min(swipeOptions.threshold, Abs(frictioned)),
                                den |-> swipeOptions.threshold]
                /\ lastTouch' = [set |-> TRUE, x |-> x, y |-> y, time |-> clock]
                /\ invoked' = Provided(IF hasStartedRef THEN <<"onSwipeMove">>
                                        ELSE <<"onSwipeMove", "onSwipeStart">>)
                /\ hasStartedRef' = TRUE
    /\ UNCHANGED <<swipeOptions, touchStart, isSwiping, clock>>
    /\ UNCHANGED notSwipe

\* velocity > velocityThreshold, for velocity = distance / duration as JavaScript
\* divides: distance / 0 is Infinity and 0 / 0 is NaN, which exceeds nothing
VelocityExceeds(distance, duration, tenths) ==
    IF duration = 0 THEN distance > 0 ELSE distance * 10 > tenths * duration

\* "completed" in handleTouchEnd
Completed(distance, duration, o) ==
    /\ duration < o.maxDuration
    /\ (distance > o.threshold \/ VelocityExceeds(distance, duration, o.velocityThreshold))

\* the directional callbacks handleTouchEnd invokes
Directional(start, last, o) ==
    LET deltaX == last.x - start.x
        deltaY == last.y - start.y
        duration == last.time - start.time
        isHorizontal == Abs(deltaX) > Abs(deltaY)
        distance == IF isHorizontal THEN Abs(deltaX) ELSE Abs(deltaY)
    IN  IF ~Completed(distance, duration, o) THEN <<>>
        ELSE IF isHorizontal /\ o.enableHorizontal
             THEN (IF deltaX > 0 THEN <<"onSwipeRight">> ELSE <<"onSwipeLeft">>)
        ELSE IF ~isHorizontal /\ o.enableVertical
             THEN (IF deltaY > 0 THEN <<"onSwipeDown">> ELSE <<"onSwipeUp">>)
        ELSE <<>>

\* handleTouchEnd, for the touchend or the touchcancel of the finger
HandleTouchEnd(event) ==
    /\ finger.down
    /\ finger' = [finger EXCEPT !.down = FALSE]
    /\ swipeCall' = event
    /\ IF ~touchStart.set \/ ~lastTouch.set
       THEN /\ invoked' = <<>>
            /\ UNCHANGED <<touchStart, lastTouch, hasStartedRef, isSwiping, delta, progress,
                           deleteVars>>
       ELSE /\ invoked' =
                  Provided(Directional(touchStart, lastTouch, swipeOptions) \o <<"onSwipeEnd">>)
            /\ Callbacks(Directional(touchStart, lastTouch, swipeOptions) \o <<"onSwipeEnd">>, 0)
            /\ isSwiping' = FALSE
            /\ delta' = [x |-> 0, y |-> 0]
            /\ progress' = [num |-> 0, den |-> 1]
            /\ touchStart' = NoTouch
            /\ lastTouch' = NoTouch
            /\ hasStartedRef' = FALSE
    /\ UNCHANGED <<swipeOptions, clock>>
    /\ UNCHANGED notSwipe

InitSwipe ==
    /\ ConfettiInit
    /\ RevealStart
    /\ SealStart
    /\ AudioStart
    /\ PaletteStart
    /\ ComponentStart
    /\ ParallaxStart
    /\ \E o \in SwipeOptionChoices : SwipeInit(o)

NextSwipe ==
    \/ Advance
    \/ \E x \in Coordinates, y \in Coordinates : HandleTouchStart(x, y)
    \/ \E x \in Coordinates, y \in Coordinates : HandleTouchMove(x, y)
    \/ \E event \in {"touchend", "touchcancel"} : HandleTouchEnd(event)

SpecSwipe == InitSwipe /\ [][NextSwipe]_vars

\* --------------------------------------------------------- useSwipeToDelete
\* executeDelete: onDelete(), setRevealed(false), setOffset(0)
ExecuteDelete ==
    /\ owner = "useSwipeToDelete"
    /\ revealed' = FALSE
    /\ offset' = 0
    /\ invoked' = <<"onDelete">>
    /\ swipeCall' = "executeDelete"
    /\ UNCHANGED <<swipeOptions, touchStart, lastTouch, hasStartedRef, isSwiping, delta,
                   progress, finger, clock, owner, renderedRevealed, listenerRevealed>>
    /\ UNCHANGED notSwipe

\* React renders the host with the current revealed, once the effects of the
\* commit before have run: the callbacks object, and with it handleTouchMove
\* and handleTouchEnd, are new ones that close over this revealed
DeleteRender ==
    /\ owner = "useSwipeToDelete"
    /\ listenerRevealed = renderedRevealed
    /\ renderedRevealed # revealed
    /\ renderedRevealed' = revealed
    /\ swipeCall' = "render"
    /\ UNCHANGED <<swipeOptions, touchStart, lastTouch, hasStartedRef, isSwiping, delta,
                   progress, finger, clock, invoked, owner, revealed, offset,
                   listenerRevealed>>
    /\ UNCHANGED notSwipe

\* the effect that attaches the listeners runs for the last commit: the
\* listeners of the render before are removed and its own are added
DeleteEffects ==
    /\ owner = "useSwipeToDelete"
    /\ listenerRevealed # renderedRevealed
    /\ listenerRevealed' = renderedRevealed
    /\ swipeCall' = "effects"
    /\ UNCHANGED <<swipeOptions, touchStart, lastTouch, hasStartedRef, isSwiping, delta,
                   progress, finger, clock, invoked, owner, revealed, offset,
                   renderedRevealed>>
    /\ UNCHANGED notSwipe

\* the threshold option: a custom one and the default 100
DeleteThresholds == {40, 100}

InitDelete ==
    /\ ConfettiInit
    /\ RevealStart
    /\ SealStart
    /\ AudioStart
    /\ PaletteStart
    /\ ComponentStart
    /\ ParallaxStart
    /\ \E threshold \in DeleteThresholds : DeleteInit(threshold)

NextDelete ==
    \/ Advance
    \/ \E x \in Coordinates, y \in Coordinates : HandleTouchStart(x, y)
    \/ \E x \in Coordinates, y \in Coordinates : HandleTouchMove(x, y)
    \/ \E event \in {"touchend", "touchcancel"} : HandleTouchEnd(event)
    \/ ExecuteDelete
    \/ DeleteRender
    \/ DeleteEffects

SpecDelete == InitDelete /\ [][NextDelete]_vars

\* ----------------------------------------------------------- audio feedback
\* the volume arguments of setVolume and the per-call volume options, in thousandths
VolumeChoices == {0 - 500, 0, 250, 1000, 2000}

\* the options of a play call: no volume, or one of the choices
NoVolume == [given |-> FALSE, value |-> 0]
PlayOptions == {NoVolume} \cup [given : {TRUE}, value : VolumeChoices]

\* setVolume(v): this.volume = Math.max(0, Math.min(1, volume))
SetVolume(v) ==
    /\ volume' = Max(0, Min(1000, v))
    /\ audioCall' = "setVolume"
    /\ UNCHANGED <<webAudio, audioContext, enabled, stored, masterGain>>
    /\ UNCHANGED notAudio

\* setEnabled(b)
SetEnabled(b) ==
    /\ enabled' = b
    /\ stored' = IF b THEN "true" ELSE "false"
    /\ audioCall' = "setEnabled"
    /\ UNCHANGED <<webAudio, audioContext, volume, masterGain>>
    /\ UNCHANGED notAudio

\* options.volume ?? this.volume * tenths / 10
Vol(options, tenths) ==
    IF options.given THEN options.value ELSE (volume * tenths) \div 10

\* the body shared by the four play methods: nothing if disabled; else the
\* audio context is created if there is none and the master gain is set to vol,
\* unless creating the context throws, which the catch turns into a warning
Play(name, vol) ==
    /\ audioCall' = name
    /\ IF ~enabled \/ (audioContext = "null" /\ ~webAudio)
       THEN UNCHANGED <<audioContext, masterGain>>
       ELSE /\ audioContext' = "context"
            /\ masterGain' = [played |-> TRUE, value |-> vol]
    /\ UNCHANGED <<webAudio, enabled, volume, stored>>
    /\ UNCHANGED notAudio

PlayGong(options) == Play("playGong", Vol(options, 10))

PlayChime(options) == Play("playChime", Vol(options, 10))

PlayClick(options) == Play("playClick", Vol(options, 5))

PlayWhoosh(options) == Play("playWhoosh", Vol(options, 4))

InitAudio ==
    /\ ConfettiInit
    /\ RevealStart
    /\ SealStart
    /\ SwipeStart
    /\ \E item \in {"null", "true", "false"}, w \in BOOLEAN : AudioInit(item, w)
    /\ PaletteStart
    /\ ComponentStart
    /\ ParallaxStart

NextAudio ==
    \/ \E v \in VolumeChoices : SetVolume(v)
    \/ \E b \in BOOLEAN : SetEnabled(b)
    \/ \E options \in PlayOptions : PlayGong(options)
    \/ \E options \in PlayOptions : PlayChime(options)
    \/ \E options \in PlayOptions : PlayClick(options)
    \/ \E options \in PlayOptions : PlayWhoosh(options)

SpecAudio == InitAudio /\ [][NextAudio]_vars

\* --------------------------------------------------------- command palette
\* the actions prop: a, an action to run; b, a submenu with an action, a
\* nested submenu and a disabled action; e, a disabled action; f, a disabled
\* submenu; g, an action whose children list is empty
Leaf(id, off) == [id |-> id, disabled |-> off, children |-> <<>>]

Actions ==
    << Leaf("a", FALSE),
       [id |-> "b", disabled |-> FALSE,
        children |-> << Leaf("c", FALSE),
                        [id |-> "d", disabled |-> FALSE,
                         children |-> << Leaf("h", FALSE) >>],
                        Leaf("i", TRUE) >>],
       Leaf("e", TRUE),
       [id |-> "f", disabled |-> TRUE, children |-> << Leaf("j", FALSE) >>],
       Leaf("g", FALSE) >>

SearchChoices == {"", "c", "co"}

\* const page = pages[pages.length - 1], "undefined" on an empty stack
Page(ps) == IF Len(ps) = 0 THEN "undefined" ELSE ps[Len(ps)]

\* currentActions of groupedActions: the actions prop on the root page, else
\* the children of the top-level action whose id is the page, else none
CurrentActions(page) ==
    IF page = "root" THEN Actions
    ELSE IF \E k \in 1..Len(Actions) : Actions[k].id = page
         THEN Actions[CHOOSE k \in 1..Len(Actions) :
                          /\ Actions[k].id = page
                          /\ \A l \in 1..(k - 1) : Actions[l].id # page].children
         ELSE <<>>

\* prev.slice(0, -1)
Slice(ps) == IF Len(ps) = 0 THEN ps ELSE SubSeq(ps, 1, Len(ps) - 1)

\* the component as an event finds it; calls collects the callbacks of the
\* props the event invokes
PaletteState ==
    [open |-> paletteOpen, pages |-> pages, search |-> search, rendered |-> renderedPages,
     listener |-> listenerPages, resetOpen |-> resetOpen, calls |-> <<>>]

\* the effects of the commit c, in the order of the hooks; none is left to
\* run when they have run already.  The reset effect, deps [open]:
\* if (!open) { setPages(['root']); setSearch('') }; then the keyboard effect,
\* deps [pages, goBack, onClose]: the listener of the last run is removed and
\* the one of that render added
Effects(st, c) ==
    LET reset == IF st.resetOpen = c.open THEN st
                 ELSE IF c.open THEN [st EXCEPT !.resetOpen = TRUE]
                 ELSE [st EXCEPT !.resetOpen = FALSE, !.pages = RootPages, !.search = ""]
    IN  [reset EXCEPT !.listener = c.rendered]

\* React renders and commits the updates an event has queued on the commit c:
\* the effects of c that have not run yet run first, and their updates follow
\* those of the event
Rendered(st, c) == [Effects(st, c) EXCEPT !.rendered = Effects(st, c).pages]

\* goBack()
GoneBack(st) == [st EXCEPT !.pages = Slice(st.pages), !.search = ""]

\* onClose(); closes: the parent's onClose sets open to false, and the render
\* this asks for is committed with that of the event
Closed(st, closes) ==
    [st EXCEPT !.calls = Append(st.calls, <<"onClose">>), !.open = st.open /\ ~closes]

\* the body of both Escape handlers, closed over the pages ps
EscapeHandler(st, ps, closes) == IF Len(ps) > 1 THEN GoneBack(st) ELSE Closed(st, closes)

\* action.children && action.children.length > 0
HasChildrenNever(action) == FALSE
HasChildren(action) == Len(action.children) > 0

\* handleSelect(action)
Selected(st, action, closes) ==
    IF action.disabled THEN st
    ELSE IF HasChildren(action)
    THEN [st EXCEPT !.pages = Append(st.pages, action.id), !.search = ""]
    ELSE [Closed([st EXCEPT !.calls = << <<"onSelect", action.id>> >>], closes)
             EXCEPT !.search = "", !.pages = RootPages]

\* the state a step leaves
Commit(st) ==
    /\ paletteOpen' = st.open
    /\ pages' = st.pages
    /\ search' = st.search
    /\ renderedPages' = st.rendered
    /\ listenerPages' = st.listener
    /\ resetOpen' = st.resetOpen
    /\ paletteCalls' = st.calls
    /\ UNCHANGED breadcrumbs

\* what an event records of the state it finds
PaletteEvent(name) ==
    [NoPaletteCall EXCEPT !.op = name, !.shown = paletteOpen, !.before = pages,
                          !.typed = search]

\* the onSelect of a rendered item: handleSelect(action), and the render its
\* updates ask for
HandleSelect(action, closes) ==
    /\ paletteOpen
    /\ \E k \in 1..Len(CurrentActions(Page(renderedPages))) :
          CurrentActions(Page(renderedPages))[k] = action
    /\ paletteCall' = [PaletteEvent("select") EXCEPT !.id = action.id,
                                                    !.disabled = action.disabled,
                                                    !.children = Len(action.children)]
    /\ Commit(Rendered(Selected(PaletteState, action, closes), PaletteState))
    /\ UNCHANGED notPalette

\* the breadcrumb button, rendered when breadcrumbs && pages.length > 1,
\* onClick={goBack}
GoBack ==
    /\ paletteOpen
    /\ breadcrumbs
    /\ Len(renderedPages) > 1
    /\ paletteCall' = PaletteEvent("goBack")
    /\ Commit(Rendered(GoneBack(PaletteState), PaletteState))
    /\ UNCHANGED notPalette

\* one Escape keydown event.  inside: the event's target is inside the
\* palette, so that the onKeyDown of CommandPrimitive handles it, closed over
\* the pages of the last render, before it reaches the document; sync: the
\* effects of the render that follows this first handler, and the render they
\* ask for, run before the document's listeners are called.  The listener
\* registered on the document then handles the event, closed over the pages
\* of the render that registered it.
Escape(inside, sync, closes) ==
    /\ inside => paletteOpen
    /\ paletteCall' = [PaletteEvent("escape") EXCEPT !.inside = inside, !.sync = sync]
    /\ LET s1 == IF inside
                 THEN Rendered(EscapeHandler(PaletteState, renderedPages, closes),
                               PaletteState)
                 ELSE PaletteState
           ran == Effects(s1, s1)
           again == Rendered(ran, ran)
           s2 == IF inside /\ sync THEN Effects(again, again) ELSE s1
       IN  Commit(Rendered(EscapeHandler(s2, s2.listener, closes), s2))
    /\ UNCHANGED notPalette

\* the backdrop, onClick={onClose}
BackdropClick(closes) ==
    /\ paletteOpen
    /\ paletteCall' = PaletteEvent("backdrop")
    /\ Commit(Rendered(Closed(PaletteState, closes), PaletteState))
    /\ UNCHANGED notPalette

\* onValueChange={setSearch}
SetSearch(s) ==
    /\ paletteOpen
    /\ paletteCall' = [PaletteEvent("setSearch") EXCEPT !.id = s]
    /\ Commit(Rendered([PaletteState EXCEPT !.search = s], PaletteState))
    /\ UNCHANGED notPalette

\* the parent renders the palette with open = o
SetOpen(o) ==
    /\ o # paletteOpen
    /\ paletteCall' = PaletteEvent("setOpen")
    /\ Commit(Rendered([PaletteState EXCEPT !.open = o], PaletteState))
    /\ UNCHANGED notPalette

\* the effects of the last commit run, when it has effects that have not run
PaletteEffects ==
    /\ resetOpen # paletteOpen \/ listenerPages # renderedPages
    /\ paletteCall' = PaletteEvent("effects")
    /\ Commit(Effects(PaletteState, PaletteState))
    /\ UNCHANGED notPalette

\* the render that the updates of the reset effect ask for
PaletteRender ==
    /\ renderedPages # pages
    /\ paletteCall' = PaletteEvent("render")
    /\ Commit(Rendered(PaletteState, PaletteState))
    /\ UNCHANGED notPalette

InitPalette ==
    /\ ConfettiInit
    /\ RevealStart
    /\ SealStart
    /\ SwipeStart
    /\ AudioStart
    /\ \E o \in BOOLEAN, bc \in BOOLEAN : PaletteInit(o, bc)
    /\ ComponentStart
    /\ ParallaxStart

NextPalette ==
    \/ \E k \in 1..Len(CurrentActions(Page(renderedPages))), closes \in BOOLEAN :
          HandleSelect(CurrentActions(Page(renderedPages))[k], closes)
    \/ GoBack
    \/ \E inside \in BOOLEAN, sync \in BOOLEAN, closes \in BOOLEAN : Escape(inside, sync, closes)
    \/ \E closes \in BOOLEAN : BackdropClick(closes)
    \/ \E s \in SearchChoices : SetSearch(s)
    \/ \E o \in BOOLEAN : SetOpen(o)
    \/ PaletteEffects
    \/ PaletteRender

SpecPalette == InitPalette /\ [][NextPalette]_vars

\* ---------------------------------------------------------- parallax scroll
\* the refs and the browser's callback list the scroll handler works on
Throttle == [rafIdRef |-> rafIdRef, tickingRef |-> tickingRef, pendingFrames |-> pendingFrames]

\* requestAnimationFrame returns a handle no pending callback has; the model
\* takes the least that is neither pending nor in rafIdRef
FrameHandle(st) ==
    CHOOSE h \in 1..3 :
        /\ h \notin st.pendingFrames \cup {st.rafIdRef}
        /\ \A g \in 1..(h - 1) : g \in st.pendingFrames \cup {st.rafIdRef}

\* handleScroll()
HandleScroll(st) ==
    IF ~st.tickingRef
    THEN [rafIdRef |-> FrameHandle(st), tickingRef |-> TRUE,
          pendingFrames |-> st.pendingFrames \cup {FrameHandle(st)}]
    ELSE st

\* the cancelAnimationFrame of the effect's cleanup
CancelFrame(st) ==
    IF st.rafIdRef # Null
    THEN [st EXCEPT !.pendingFrames = st.pendingFrames \ {st.rafIdRef}]
    ELSE st

\* the body of the effect: nothing under reduced motion, else the listener is
\* registered and handleScroll called once
EffectBody(st, rm) ==
    /\ scrollListener' = ~rm
    /\ LET after == IF rm THEN st ELSE HandleScroll(st)
       IN  /\ rafIdRef' = after.rafIdRef
           /\ tickingRef' = after.tickingRef
           /\ pendingFrames' = after.pendingFrames

\* the cleanup of the last effect run, which exists when that run got past
\* its early return
Cleaned(st) == IF scrollListener THEN CancelFrame(st) ELSE st

\* the effect runs for the first time
ParallaxMount ==
    /\ parallaxStatus = "rendered"
    /\ parallaxStatus' = "mounted"
    /\ EffectBody(Throttle, parallaxReduced)
    /\ parallaxCall' = "mount"
    /\ UNCHANGED <<speed, parallaxReduced, parallaxDeps, refCurrent, rectTop, parallaxOffset>>
    /\ UNCHANGED notParallax

\* a render with another speed or another reducedMotion is committed, once
\* the effects of the commit before it have run
ParallaxRender(s, rm) ==
    /\ parallaxStatus = "mounted"
    /\ parallaxDeps = <<speed, parallaxReduced>>
    /\ <<s, rm>> # <<speed, parallaxReduced>>
    /\ speed' = s
    /\ parallaxReduced' = rm
    /\ parallaxCall' = "render"
    /\ UNCHANGED <<parallaxStatus, parallaxDeps, refCurrent, rectTop, parallaxOffset,
                   rafIdRef, tickingRef, scrollListener, pendingFrames>>
    /\ UNCHANGED notParallax

\* the effects of a commit that changed [speed, reducedMotion]: the cleanup of
\* the last effect run, then the effect again
ParallaxEffects ==
    /\ parallaxStatus = "mounted"
    /\ parallaxDeps # <<speed, parallaxReduced>>
    /\ parallaxDeps' = <<speed, parallaxReduced>>
    /\ EffectBody(Cleaned(Throttle), parallaxReduced)
    /\ parallaxCall' = "effects"
    /\ UNCHANGED <<parallaxStatus, speed, parallaxReduced, refCurrent, rectTop,
                   parallaxOffset>>
    /\ UNCHANGED notParallax

\* the scroll positions of the page, as the top of the element in px
Tops == {InnerHeight, 300, 0 - RectHeight}

Speeds == {5, 10}

\* a scroll event on window that leaves the element at top
Scroll(top) ==
    /\ parallaxStatus \in {"rendered", "mounted"}
    /\ rectTop' = top
    /\ LET after == IF scrollListener THEN HandleScroll(Throttle) ELSE Throttle
       IN  /\ rafIdRef' = after.rafIdRef
           /\ tickingRef' = after.tickingRef
           /\ pendingFrames' = after.pendingFrames
    /\ parallaxCall' = "scroll"
    /\ UNCHANGED <<parallaxStatus, speed, parallaxReduced, parallaxDeps, refCurrent,
                   parallaxOffset, scrollListener>>
    /\ UNCHANGED notParallax

\* scrollPercent * 100 * speed, in tenths of a px
ParallaxOffset(top, s) == ((InnerHeight - top) * 100 * s) \div (InnerHeight + RectHeight)

\* the browser runs the pending frame callback h: the updateOffset of the
\* effect run that requested it, with the speed of that run
UpdateOffset(h) ==
    /\ h \in pendingFrames
    /\ pendingFrames' = pendingFrames \ {h}
    /\ IF ~refCurrent
       THEN /\ parallaxCall' = "frame"
            /\ UNCHANGED <<parallaxOffset, tickingRef>>
       ELSE /\ parallaxCall' = "updateOffset"
            /\ parallaxOffset' = ParallaxOffset(rectTop, parallaxDeps[1])
            /\ tickingRef' = FALSE
    /\ UNCHANGED <<parallaxStatus, speed, parallaxReduced, parallaxDeps, refCurrent, rectTop,
                   rafIdRef, scrollListener>>
    /\ UNCHANGED notParallax

\* the component renders with or without the element the ref is given to
SetRef(attached) ==
    /\ parallaxStatus = "mounted"
    /\ attached # refCurrent
    /\ refCurrent' = attached
    /\ parallaxCall' = "ref"
    /\ UNCHANGED <<parallaxStatus, speed, parallaxReduced, parallaxDeps, rectTop, parallaxOffset, rafIdRef,
                   tickingRef, scrollListener, pendingFrames>>
    /\ UNCHANGED notParallax

\* the component unmounts: the cleanup of the last effect run
ParallaxUnmount ==
    /\ parallaxStatus = "mounted"
    /\ parallaxStatus' = "unmounted"
    /\ scrollListener' = FALSE
    /\ pendingFrames' = Cleaned(Throttle).pendingFrames
    /\ refCurrent' = FALSE
    /\ parallaxCall' = "unmount"
    /\ UNCHANGED <<speed, parallaxReduced, parallaxDeps, rectTop, parallaxOffset, rafIdRef,
                   tickingRef>>
    /\ UNCHANGED notParallax

InitParallax ==
    /\ ConfettiInit
    /\ RevealStart
    /\ SealStart
    /\ SwipeStart
    /\ AudioStart
    /\ PaletteStart
    /\ ComponentStart
    /\ \E s \in Speeds, rm \in BOOLEAN, attached \in BOOLEAN : ParallaxInit(s, rm, attached)

NextParallax ==
    \/ ParallaxMount
    \/ \E s \in Speeds, rm \in BOOLEAN : ParallaxRender(s, rm)
    \/ ParallaxEffects
    \/ \E top \in Tops : Scroll(top)
    \/ \E h \in 1..3 : UpdateOffset(h)
    \/ \E attached \in BOOLEAN : SetRef(attached)
    \/ ParallaxUnmount

SpecParallax == InitParallax /\ [][NextParallax]_vars

\* ------------------------------------------------------------------ claims
Pending == Len(rafQueue) + Len(frameBatch)

Mounted == {h \in Hooks : status[h] = "mounted"}

\* C1: while the host is mounted, a non-empty pool has a frame callback scheduled.
C1_DriverRunsWhilePoolNonEmpty ==
    (status[Self] = "mounted" /\ particlesRef # <<>>) => Pending > 0

\* C2: never more than one frame callback is pending.
C2_SingleDriverLoop == Pending <= 1

\* C3 as stated: every fire call made while reduced motion is off grows the pool
\* by exactly the requested particle count.
C3_FireAddsCount ==
    [][(call'.op = "fire" /\ ~call'.reducedMotion)
          => Len(particlesRef') = Len(particlesRef) + call'.particleCount]_vars

\* C3 amended: every fire call made while reduced motion is off and after the
\* mount effect has created the canvas grows the pool by exactly the requested
\* particle count; a call made before that leaves the pool as it was.
C3_FireAddsCountOnceMounted ==
    [][(call'.op = "fire" /\ ~call'.reducedMotion)
          => Len(particlesRef') =
                Len(particlesRef) + (IF canvasRef[Self] # Null THEN call'.particleCount ELSE 0)]_vars

\* two fire calls with count 1, no frame in between, leave a pool of 2
C3_Witness ==
    /\ call.op = "fire" /\ ~call.reducedMotion /\ call.particleCount = 1
    /\ canvasRef[Self] # Null
    /\ Len(particlesRef) = 2
    /\ \A i \in 1..Len(particlesRef) : particlesRef[i].life = 0

\* C4: a fire call made while reduced motion is preferred spawns nothing and
\* schedules nothing, whatever particle count it asks for.
C4_ReducedMotionNoOp ==
    [][(call'.op = "fire" /\ call'.reducedMotion)
          => /\ particlesRef' = particlesRef
             /\ rafQueue' = rafQueue
             /\ rafRef' = rafRef
             /\ isActive' = isActive]_vars

\* fire asked for MaxCount particles on a mounted, idle hook under reduced
\* motion: the pool is still empty and no callback is scheduled
C4_Witness ==
    /\ call.op = "fire" /\ call.reducedMotion /\ call.particleCount = MaxCount
    /\ status[Self] = "mounted"
    /\ particlesRef = <<>>
    /\ Pending = 0

\* C5: a particle is out of the pool by the frame on which its life reaches
\* maxLife, so every particle in the pool has life < maxLife.
C5_RemovedByMaxLife ==
    \A i \in 1..Len(particlesRef) :
        particlesRef[i].life * FrameMs < particlesRef[i].maxLife

\* C6: right after a frame pass that leaves the pool empty the driver is idle
\* and no frame callback is left to run.
C6_IdleAfterEmpty ==
    (call.op = "animate" /\ GetContext2d # "null" /\ particlesRef = <<>>)
        => (Pending = 0 /\ ~isActive)

\* C7: if the host stays mounted and fire is no longer called, then from some
\* frame on the pool is empty, no callback is pending and isActive is false.
C7_LoopExits ==
    ([](status[Self] # "unmounted") /\ <>[](call.op # "fire"))
        => <>[](particlesRef = <<>> /\ Pending = 0 /\ ~isActive)

\* C8: right after the host unmounts, its canvas is out of the document and no
\* frame callback is scheduled.
C8_UnmountCleansUp ==
    (call.op = "unmount" /\ call.hook = Self) => (Self \notin body /\ Pending = 0)

\* C9 as stated: the page holds at most one overlay canvas.
C9_SingleCanvas == Cardinality(body) <= 1

\* C9 amended: every overlay canvas in the page is the canvas of a hook that is
\* mounted, one per hook, so the page holds at most as many overlays as it has
\* mounted users; a fire call creates none.
C9_OneCanvasPerMountedHook ==
    [][/\ \A c \in body' : status'[c] = "mounted" /\ canvasRef'[c] = c
       /\ Cardinality(body') <= Cardinality(Mounted')
       /\ call'.op = "fire" => (body' = body /\ canvasRef' = canvasRef)]_vars

\* two users mounted, and Self has fired into a pool that is still alive
C9_Witness ==
    /\ Cardinality(Mounted) >= 2
    /\ Cardinality(body) = Cardinality(Mounted)
    /\ call.op = "fire"
    /\ particlesRef # <<>>

\* C10: a particle spawned with iridescent: false (saturation 0) keeps hue 0.
C10_NeutralHueKept ==
    \A i \in 1..Len(particlesRef) :
        particlesRef[i].saturation = 0 => particlesRef[i].hue = 0

\* a frame pass that got as far as the filter: the step is animate, run with a
\* canvas that gave a 2D context
FramePass == call'.op = "animate" /\ canvasRef[Self] # Null /\ GetContext2d # "null"

\* the order-preserving ways of finding a pool of m particles inside one of n
Matchings(n, m) ==
    {f \in [1..m -> 1..n] : \A j, k \in 1..m : j < k => f[j] < f[k]}

\* q is the particle p one frame later: same spawn data, one step of physics
Aged(p, q) ==
    /\ q.life = p.life + 1
    /\ q.maxLife = p.maxLife
    /\ q.saturation = p.saturation
    /\ q.lightness = p.lightness
    /\ q.vy = p.vy + Gravity
    /\ q.y = p.y + q.vy

\* a <= b, for alphas kept as fractions with a positive denominator
AlphaLeq(a, b) == a.num * b.den <= b.num * a.den

\* C11: across every step each particle that stays in the pool has an alpha no
\* greater than before (a frame pass ages the survivors, any other step leaves
\* the particles already in the pool as they are), and a particle's alpha is
\* <= 0, in the pool or as the frame pass computes it, only with life >= maxLife.
C11_AlphaNeverIncreases ==
    [][/\ IF FramePass
          THEN \E f \in Matchings(Len(particlesRef), Len(particlesRef')) :
                  \A j \in 1..Len(particlesRef') :
                      /\ Aged(particlesRef[f[j]], particlesRef'[j])
                      /\ AlphaLeq(particlesRef'[j].alpha, particlesRef[f[j]].alpha)
          ELSE /\ Len(particlesRef') >= Len(particlesRef)
               /\ SubSeq(particlesRef', 1, Len(particlesRef)) = particlesRef
       /\ \A i \in 1..Len(particlesRef) :
             LET q == Update(particlesRef[i])
             IN  q.alpha.num <= 0 => q.life * FrameMs >= q.maxLife
       /\ \A i \in 1..Len(particlesRef') :
             particlesRef'[i].alpha.num <= 0
                 => particlesRef'[i].life * FrameMs >= particlesRef'[i].maxLife]_vars

\* after a frame pass the pool holds a particle that has faded below 1 and has
\* lived on past maxLife with the alpha it had then, still above 0
C11_Witness ==
    /\ call.op = "animate"
    /\ \E i \in 1..Len(particlesRef) :
          /\ particlesRef[i].life * FrameMs >= particlesRef[i].maxLife
          /\ particlesRef[i].alpha.num > 0
          /\ particlesRef[i].alpha.num < particlesRef[i].alpha.den

\* C12: a frame pass leaves in the pool (and has drawn, in this order) exactly
\* the updated particles it did not remove, in the order they had before it; a
\* fire call keeps the particles already in the pool where they were and puts
\* its new particles after them.
C12_InsertionOrderKept ==
    [][/\ FramePass =>
             \E f \in Matchings(Len(particlesRef), Len(particlesRef')) :
                 /\ \A j \in 1..Len(particlesRef') :
                       /\ particlesRef'[j] = Update(particlesRef[f[j]])
                       /\ ~Removed(particlesRef'[j])
                 /\ \A i \in 1..Len(particlesRef) :
                       (\A j \in 1..Len(particlesRef') : f[j] # i)
                           => Removed(Update(particlesRef[i]))
       /\ call'.op = "fire" =>
             /\ Len(particlesRef') >= Len(particlesRef)
             /\ SubSeq(particlesRef', 1, Len(particlesRef)) = particlesRef
             /\ \A j \in (Len(particlesRef) + 1)..Len(particlesRef') :
                   particlesRef'[j].life = 0]_vars

\* a frame pass went over three particles of two fire calls and removed the
\* middle one: the two survivors are in the pool, the older one first
C12_Witness ==
    /\ call.op = "animate"
    /\ call.particleCount = 3
    /\ Len(particlesRef) = 2
    /\ particlesRef[1].life > particlesRef[2].life
    /\ particlesRef[1].vy = particlesRef[2].vy + (particlesRef[1].life - particlesRef[2].life) * Gravity

\* C13: a fire call with particle count 0 leaves the pool as it was, and the
\* frame callback it scheduled on an idle mounted hook (empty pool, this one
\* callback due) draws nothing and leaves the driver idle: the pool is still
\* empty, isActive is false and no callback is pending.
C13_EmptyBurstEnds ==
    [][/\ (call'.op = "fire" /\ call'.particleCount = 0) => particlesRef' = particlesRef
       /\ (/\ call'.op = "animate"
           /\ status[Self] = "mounted"
           /\ particlesRef = <<>>
           /\ Len(frameBatch) = 1
           /\ rafQueue = <<>>)
             => (particlesRef' = <<>> /\ ~isActive' /\ Pending' = 0)]_vars

\* C14 as stated: the overlay is created on first use, so a canvas enters the
\* document only in a fire call, and a fire call made when the hook has no
\* canvas in the document puts one there.
C14_CanvasCreatedByFire ==
    [][/\ call'.op # "fire" => body' \subseteq body
       /\ (call'.op = "fire" /\ Self \notin body) => Self \in body']_vars

\* C14 amended: the overlay is created by the mount effect, whether or not fire
\* has been called; a mounted hook has its canvas in the document; a fire call
\* never creates one, and a fire call made when the hook has no canvas does
\* nothing at all.
C14_CanvasCreatedAtMount ==
    [][/\ (call'.op = "mount" /\ call'.hook = Self)
             => (Self \in body' /\ canvasRef'[Self] = Self)
       /\ status'[Self] = "mounted" => Self \in body'
       /\ call'.op = "fire" => (body' = body /\ canvasRef' = canvasRef)
       /\ (call'.op = "fire" /\ canvasRef[Self] = Null)
             => (particlesRef' = particlesRef /\ rafQueue' = rafQueue /\ isActive' = isActive)]_vars

\* fire asked for particles before the mount effect ran: there is still no
\* canvas in the document and the pool is empty
C14_Witness ==
    /\ call.op = "fire" /\ ~call.reducedMotion /\ call.particleCount > 0
    /\ status[Self] = "rendered"
    /\ canvasRef[Self] = Null
    /\ body = {}
    /\ particlesRef = <<>>

\* C15: every render of useScrollReveal made while disabled is set or the
\* reduced-motion preference is active returns isVisible = true, opacity 1,
\* transform 'none' and transition 'none'.
C15_ShownWhenDisabledOrReduced ==
    (revealCall.op = "render" /\ (disabled \/ mediaMatches))
        => /\ rendered.isVisible
           /\ rendered.opacity = 1
           /\ rendered.transform = "none"
           /\ rendered.transition = "none"

\* C19: with once = true, isVisible and hasBeenSeen, as React state and as the
\* hook returns them, never go from true back to false.
C19_OnceStaysVisible ==
    [][once => /\ isVisible => isVisible'
               /\ hasBeenSeen => hasBeenSeen'
               /\ rendered.isVisible => rendered'.isVisible
               /\ rendered.hasBeenSeen => rendered'.hasBeenSeen]_vars

\* with once = true the element has been revealed, and an observer set up by a
\* later run of the effect has just reported it out of view: it is still shown
C19_Witness ==
    /\ once
    /\ revealCall.op = "intersection" /\ ~revealCall.isIntersecting
    /\ isVisible /\ hasBeenSeen
    /\ rendered.isVisible

\* C16: while the reduced-motion preference is active the rotation of the seal
\* does not change, whatever the animated prop is.
C16_StillUnderReducedMotion ==
    [][sealReduced => rotation' = rotation]_vars

DirectionalCallbacks == {"onSwipeLeft", "onSwipeRight", "onSwipeUp", "onSwipeDown"}

\* the directional callbacks among those the last handler invoked
InvokedDirections == {i \in 1..Len(invoked) : invoked[i] \in DirectionalCallbacks}

\* C17: a touchend that comes maxDuration ms or more after the touchstart of its
\* gesture invokes no directional callback.
C17_NoSwipeAfterMaxDuration ==
    [][(/\ swipeCall' = "touchend"
        /\ touchStart.set
        /\ clock - touchStart.time >= swipeOptions.maxDuration)
          => InvokedDirections' = {}]_vars

\* C18: the end of a gesture invokes at most one directional callback, and
\* invokes one only if the movement of the finger from the touchstart to the
\* touchend, taken along its dominant axis, is longer than threshold px or
\* faster than velocityThreshold px/ms over the time of the gesture; the
\* callback is the one of that axis and of the sign of the movement.
C18_OneCallbackPastThreshold ==
    [][(swipeCall' \in {"touchend", "touchcancel"} /\ finger.down /\ touchStart.set) =>
          LET deltaX == finger.x - touchStart.x
              deltaY == finger.y - touchStart.y
              duration == clock - touchStart.time
              distance == Max(Abs(deltaX), Abs(deltaY))
              names == {invoked'[i] : i \in InvokedDirections'}
          IN  /\ Cardinality(InvokedDirections') <= 1
              /\ names # {} =>
                    \/ distance > swipeOptions.threshold
                    \/ IF duration = 0 THEN distance > 0
                       ELSE distance * 10 > swipeOptions.velocityThreshold * duration
              /\ "onSwipeRight" \in names => (Abs(deltaX) > Abs(deltaY) /\ deltaX > 0)
              /\ "onSwipeLeft" \in names => (Abs(deltaX) > Abs(deltaY) /\ deltaX < 0)
              /\ "onSwipeDown" \in names => (Abs(deltaY) >= Abs(deltaX) /\ deltaY > 0)
              /\ "onSwipeUp" \in names => (Abs(deltaY) >= Abs(deltaX) /\ deltaY < 0)]_vars

\* C20: the master gain given to every sound played is within 0..1.
C20_MasterGainInRange ==
    masterGain.played => (masterGain.value >= 0 /\ masterGain.value <= 1000)

\* C21: one Escape key press on a submenu page takes exactly one page off the
\* stack and calls nothing, and one Escape key press on the root page calls
\* onClose exactly once, whichever handlers see the event.
C21_EscapeOneLevel ==
    (paletteCall.op = "escape" /\ paletteCall.shown) =>
        /\ Len(paletteCall.before) > 1 =>
               /\ pages = Slice(paletteCall.before)
               /\ paletteCalls = <<>>
        /\ Len(paletteCall.before) = 1 => paletteCalls = << <<"onClose">> >>

\* C22: selecting an action does one of three things.  A disabled action
\* changes nothing and calls nothing; an action with children is pushed on the
\* stack and the search cleared, and nothing is called; any other action has
\* its onSelect called, then onClose, and leaves the search empty and the stack
\* at the root page.
C22_SelectOutcomes ==
    paletteCall.op = "select" =>
        IF paletteCall.disabled
        THEN /\ pages = paletteCall.before
             /\ search = paletteCall.typed
             /\ paletteCalls = <<>>
             /\ paletteOpen
        ELSE IF paletteCall.children > 0
        THEN /\ pages = Append(paletteCall.before, paletteCall.id)
             /\ search = ""
             /\ paletteCalls = <<>>
             /\ paletteOpen
        ELSE /\ paletteCalls = << <<"onSelect", paletteCall.id>>, <<"onClose">> >>
             /\ search = ""
             /\ pages = RootPages

\* an action without children was selected on a submenu page after a search
\* was typed, and the parent left the palette open
C22_Witness ==
    /\ paletteCall.op = "select"
    /\ ~paletteCall.disabled
    /\ paletteCall.children = 0
    /\ Len(paletteCall.before) > 1
    /\ paletteCall.typed # ""
    /\ paletteOpen

\* C23: the Confetti component calls fire at most once for as long as its
\* trigger prop stays true and its options prop stays the same; the animation
\* starting or finishing does not make it call fire again.
C23_OneBurstPerActivation == trigger => fireCalls <= 1

\* C24: in useSwipeToDelete the offset stays within [-threshold, 0], and once
\* a gesture has ended the offset is -threshold if revealed is true and 0 if
\* revealed is false.
C24_OffsetFollowsRevealed ==
    owner = "useSwipeToDelete" =>
        /\ 0 - swipeOptions.threshold <= offset
        /\ offset <= 0
        /\ (swipeCall \in {"touchend", "touchcancel"} /\ invoked # <<>>) =>
               offset = IF revealed THEN 0 - swipeOptions.threshold ELSE 0

\* C25: in useParallaxScroll at most one frame callback is pending, and
\* tickingRef is true only while one is pending, so that a later scroll event
\* is never ignored for good.
C25_TickingOnlyWhilePending ==
    parallaxStatus = "mounted" =>
        /\ Cardinality(pendingFrames) <= 1
        /\ tickingRef => pendingFrames # {}

====
